---- MODULE Spec2Model ----
(***************************************************************************)
(* Model of the Proxmox SDN zone resource of terraform-provider-proxmox:   *)
(* the zones REST client (proxmox/cluster/sdn/zones), the resource model   *)
(* and its conversions (fwprovider/cluster/sdn/zones, file of the model),  *)
(* and the resource's Create / Read / Update / Delete handlers.            *)
(*                                                                         *)
(* Representation.  A Go string is a sequence of symbols.  The only symbol *)
(* the code ever inspects is the comma ","; every other symbol stands for  *)
(* a non-empty comma-free chunk of text ("vmbr0", "mtu", ...).  A Go       *)
(* pointer is a sequence of length 0 (nil) or 1 (the pointee).  A value of *)
(* the plugin framework (types.String, types.Int32, types.Bool,            *)
(* types.List) is a record of its state and its Go value, the Go value of  *)
(* a null or unknown one being the zero value, as in the framework.        *)
(***************************************************************************)
EXTENDS Integers, Sequences, FiniteSets, TLC

VARIABLES
    cfg,        \* SpecConv: the resource model handed to a conversion
    out,        \* SpecConv: the result of the last conversion applied to cfg
    lst,        \* SpecList: the input of a list<->string helper
    res,        \* SpecList: the result of the last helper applied to lst
    resp,       \* SpecClient: the server's answer to GET cluster/sdn/zones
    listed,     \* SpecClient: what Client.List returned for resp
    tfstate,    \* Spec: the resource's state held by the host runtime
    last        \* Spec: the last handler invocation and what it did

vars == <<cfg, out, lst, res, resp, listed, tfstate, last>>

(***************************************************************************)
(* Bounds of the model.                                                    *)
(***************************************************************************)
\* longest list (nodes, peers, exitnodes, zone list) the inputs hold
MaxLen == 2
\* most attributes left unset at once in a model handed to a conversion
MaxUnset == 2
\* most variant blocks populated at once in a model handed to a conversion
MaxBlocks == 2

(***************************************************************************)
(* Go pointers and strings.                                                *)
(***************************************************************************)
Nil == <<>>
Ptr(v) == <<v>>
Deref(p) == p[1]

Comma == ","
\* a one-chunk string
S(chunk) == <<chunk>>
EmptyString == <<>>

\* SubsetsUpTo(T, k): the subsets of T with at most k elements
RECURSIVE SubsetsUpTo(_, _)
SubsetsUpTo(T, k) ==
    IF k = 0 THEN {{}}
    ELSE LET prev == SubsetsUpTo(T, k - 1)
         IN  prev \cup {U \cup {x} : U \in prev, x \in T}

SeqsUpTo(T, n) == UNION {[1..k -> T] : k \in 0..n}

\* strings.Join(elems, sep)
RECURSIVE Join(_, _)
Join(elems, sep) ==
    IF Len(elems) = 0 THEN EmptyString
    ELSE IF Len(elems) = 1 THEN elems[1]
    ELSE elems[1] \o sep \o Join(Tail(elems), sep)

\* index of the first comma of s, 0 when it has none
RECURSIVE IndexComma(_, _)
IndexComma(s, i) ==
    IF i > Len(s) THEN 0
    ELSE IF s[i] = Comma THEN i
    ELSE IndexComma(s, i + 1)

\* strings.Split(s, ","): Split("") is [""], a trailing comma gives a last ""
RECURSIVE Split(_)
Split(s) ==
    LET i == IndexComma(s, 1)
    IN  IF i = 0 THEN <<s>>
        ELSE <<SubSeq(s, 1, i - 1)>> \o Split(SubSeq(s, i + 1, Len(s)))

(***************************************************************************)
(* Values of the plugin framework.                                         *)
(***************************************************************************)
StringNull == [state |-> "null", value |-> EmptyString]
StringValue(s) == [state |-> "known", value |-> s]
Int32Null == [state |-> "null", value |-> 0]
Int32Value(n) == [state |-> "known", value |-> n]
BoolNull == [state |-> "null", value |-> FALSE]
BoolValue(b) == [state |-> "known", value |-> b]
ListNull == [state |-> "null", value |-> <<>>]
ListUnknown == [state |-> "unknown", value |-> <<>>]
\* types.ListValueFrom(ctx, types.StringType, parts)
ListValueFrom(parts) ==
    [state |-> "known", value |-> [i \in 1..Len(parts) |-> StringValue(parts[i])]]

IsNull(v) == v.state = "null"
IsUnknown(v) == v.state = "unknown"
ValueString(v) == v.value
ValueStringPointer(v) == IF IsNull(v) THEN Nil ELSE Ptr(v.value)
ValueInt32Pointer(v) == IF IsNull(v) THEN Nil ELSE Ptr(v.value)
ValueBoolPointer(v) == IF IsNull(v) THEN Nil ELSE Ptr(v.value)
StringPointerValue(p) == IF p = Nil THEN StringNull ELSE StringValue(Deref(p))
Int32PointerValue(p) == IF p = Nil THEN Int32Null ELSE Int32Value(Deref(p))
BoolPointerValue(p) == IF p = Nil THEN BoolNull ELSE BoolValue(Deref(p))

(***************************************************************************)
(* convertListToString / convertStringToList.                              *)
(***************************************************************************)
convertListToString(list) ==
    IF IsNull(list) \/ IsUnknown(list) THEN Nil
    ELSE LET stringVals == [i \in 1..Len(list.value) |-> ValueString(list.value[i])]
         IN  Ptr(Join(stringVals, S(Comma)))

convertStringToList_NoSplit(value) ==
    IF value = Nil \/ Deref(value) = EmptyString THEN ListNull
    ELSE ListValueFrom(<<Deref(value)>>)

convertStringToList(value) ==
    IF value = Nil \/ Deref(value) = EmptyString THEN ListNull
    ELSE ListValueFrom(Split(Deref(value)))

(***************************************************************************)
(* The wire record SdnZoneBody and the resource model.                     *)
(***************************************************************************)
ZeroBody ==
    [Name |-> EmptyString, Type |-> Nil, Delete |-> Nil,
     AdvertiseSubnets |-> Nil, Bridge |-> Nil, BridgeDisableMacLearning |-> Nil,
     Controller |-> Nil, Dhcp |-> Nil, DisableArpNdSuppression |-> Nil,
     Dns |-> Nil, Dnszone |-> Nil, DpID |-> Nil, Exitnodes |-> Nil,
     ExitnodesLocalRouting |-> Nil, ExitnodesPrimary |-> Nil, Ipam |-> Nil,
     Mac |-> Nil, Mtu |-> Nil, Nodes |-> Nil, Peers |-> Nil, Reversedns |-> Nil,
     RtImport |-> Nil, Tag |-> Nil, VlanProtocol |-> Nil, VrfVxlan |-> Nil,
     VxlanPort |-> Nil]

\* the zero value of sdnZoneResourceModel (var m sdnZoneResourceModel)
ZeroModel ==
    [Name |-> StringNull, MTU |-> Int32Null, Nodes |-> ListNull,
     IPAM |-> StringNull, DNS |-> StringNull, ReverseDNS |-> StringNull,
     DNSZone |-> StringNull,
     Simple |-> Nil, VLAN |-> Nil, VXLAN |-> Nil, QinQ |-> Nil, EVPN |-> Nil]

sdnZoneSimpleModel(dhcp) == [AutomaticDHCP |-> dhcp]
sdnZoneVlanModel(bridge) == [Bridge |-> bridge]
sdnZoneVxlanModel(peers, port) == [Peers |-> peers, Port |-> port]
sdnZoneQinQModel(bridge, tag, proto) ==
    [Bridge |-> bridge, Tag |-> tag, VlanProtocol |-> proto]

\* the mutant resets the base attributes and keeps the variant blocks
RemoveAllAttributes_KeepsBlocks(m) ==
    [m EXCEPT !.MTU = Int32Null, !.Nodes = ListNull, !.IPAM = StringNull,
              !.DNS = StringNull, !.ReverseDNS = StringNull,
              !.DNSZone = StringNull]

RemoveAllAttributes(m) ==
    [ZeroModel EXCEPT !.Name = m.Name, !.Nodes = ListNull]

(***************************************************************************)
(* exportToSdnZoneBody: the model as a wire record.                        *)
(***************************************************************************)
\* result := &zones.SdnZoneBody{ the base attributes }
exportBase(m) ==
    [ZeroBody EXCEPT
       !.Name = ValueString(m.Name),
       !.Mtu = ValueInt32Pointer(m.MTU),
       !.Nodes = convertListToString(m.Nodes),
       !.Ipam = ValueStringPointer(m.IPAM),
       !.Dns = ValueStringPointer(m.DNS),
       !.Reversedns = ValueStringPointer(m.ReverseDNS),
       !.Dnszone = ValueStringPointer(m.DNSZone)]

\* the five branches of the if-chain, each on the block it found non-nil
exportSimple(result, simple) ==
    [result EXCEPT
       !.Type = Ptr(S("simple")),
       !.Dhcp = ValueStringPointer(simple.AutomaticDHCP)]

exportVlan(result, vlan) ==
    [result EXCEPT
       !.Type = Ptr(S("vlan")),
       !.Bridge = ValueStringPointer(vlan.Bridge)]

exportVxlan(result, vxlan) ==
    [result EXCEPT
       !.Type = Ptr(S("vxlan")),
       !.Peers = convertListToString(vxlan.Peers),
       !.VxlanPort = ValueInt32Pointer(vxlan.Port)]

exportQinQ_TypeVlan(result, qinq) ==
    [result EXCEPT
       !.Type = Ptr(S("vlan")),
       !.Bridge = ValueStringPointer(qinq.Bridge),
       !.Tag = ValueInt32Pointer(qinq.Tag),
       !.VlanProtocol = ValueStringPointer(qinq.VlanProtocol)]

exportQinQ(result, qinq) ==
    [result EXCEPT
       !.Type = Ptr(S("qinq")),
       !.Bridge = ValueStringPointer(qinq.Bridge),
       !.Tag = ValueInt32Pointer(qinq.Tag),
       !.VlanProtocol = ValueStringPointer(qinq.VlanProtocol)]

exportEvpn(result, evpn) ==
    [result EXCEPT
       !.Type = Ptr(S("evpn")),
       !.Controller = ValueStringPointer(evpn.Controller),
       !.VrfVxlan = ValueInt32Pointer(evpn.VrfVxlan),
       !.Mac = ValueStringPointer(evpn.Mac),
       !.Exitnodes = convertListToString(evpn.Exitnodes),
       !.ExitnodesPrimary = ValueStringPointer(evpn.ExitnodesPrimary),
       !.ExitnodesLocalRouting = ValueBoolPointer(evpn.ExitnodesLocalRouting),
       !.AdvertiseSubnets = ValueBoolPointer(evpn.AdvertiseSubnets),
       !.DisableArpNdSuppression = ValueBoolPointer(evpn.DisableArpNdSuppression),
       !.RtImport = ValueStringPointer(evpn.RtImport)]

exportToSdnZoneBody(m) ==
    LET result == exportBase(m)
    IN  IF m.Simple # Nil THEN exportSimple(result, Deref(m.Simple))
        ELSE IF m.VLAN # Nil THEN exportVlan(result, Deref(m.VLAN))
        ELSE IF m.VXLAN # Nil THEN exportVxlan(result, Deref(m.VXLAN))
        ELSE IF m.QinQ # Nil THEN exportQinQ(result, Deref(m.QinQ))
        ELSE IF m.EVPN # Nil THEN exportEvpn(result, Deref(m.EVPN))
        ELSE \* var zoneType string stays "", and result.Type = &zoneType
            [result EXCEPT !.Type = Ptr(EmptyString)]

(***************************************************************************)
(* importFromSdnZoneBody: the wire record into the model m, which keeps    *)
(* whatever the assignments do not touch.  The result is the model, the    *)
(* diagnostics added, and whether the nil body.Type was dereferenced       *)
(* (a run-time panic of the provider process).                             *)
(***************************************************************************)
DiagError(summary) == [severity |-> "error", summary |-> summary]
DiagWarning(summary) == [severity |-> "warning", summary |-> summary]
HasError(diags) == \E i \in 1..Len(diags) : diags[i].severity = "error"

importFromSdnZoneBody(m, body) ==
    LET base == [m EXCEPT
                   !.Name = StringValue(body.Name),
                   !.MTU = Int32PointerValue(body.Mtu),
                   !.Nodes = convertStringToList(body.Nodes),
                   !.IPAM = StringPointerValue(body.Ipam),
                   !.DNS = StringPointerValue(body.Dns),
                   !.ReverseDNS = StringPointerValue(body.Reversedns),
                   !.DNSZone = StringPointerValue(body.Dnszone)]
        done(model) == [model |-> model, diags |-> <<>>, panicked |-> FALSE]
    IN  IF body.Type = Nil THEN
            [model |-> base, diags |-> <<>>, panicked |-> TRUE]
        ELSE IF Deref(body.Type) = S("simple") THEN
            done([base EXCEPT !.Simple =
                Ptr(sdnZoneSimpleModel(StringPointerValue(body.Dhcp)))])
        ELSE IF Deref(body.Type) = S("vlan") THEN
            done([base EXCEPT !.VLAN =
                Ptr(sdnZoneVlanModel(StringPointerValue(body.Bridge)))])
        ELSE IF Deref(body.Type) = S("vxlan") THEN
            done([base EXCEPT !.VXLAN =
                Ptr(sdnZoneVxlanModel(convertStringToList(body.Peers),
                                      Int32PointerValue(body.VxlanPort)))])
        ELSE IF Deref(body.Type) = S("qinq") THEN
            done([base EXCEPT !.QinQ =
                Ptr(sdnZoneQinQModel(StringPointerValue(body.Bridge),
                                     Int32PointerValue(body.Tag),
                                     StringPointerValue(body.VlanProtocol)))])
        ELSE IF Deref(body.Type) = S("evpn") THEN
            done([base EXCEPT !.EVPN = Ptr(
                [Controller |-> StringPointerValue(body.Controller),
                 VrfVxlan |-> Int32PointerValue(body.VrfVxlan),
                 Mac |-> StringPointerValue(body.Mac),
                 Exitnodes |-> convertStringToList(body.Exitnodes),
                 ExitnodesPrimary |-> StringPointerValue(body.ExitnodesPrimary),
                 ExitnodesLocalRouting |->
                     BoolPointerValue(body.ExitnodesLocalRouting),
                 AdvertiseSubnets |-> BoolPointerValue(body.AdvertiseSubnets),
                 DisableArpNdSuppression |->
                     BoolPointerValue(body.DisableArpNdSuppression),
                 RtImport |-> StringPointerValue(body.RtImport)])])
        ELSE
            [model |-> base,
             diags |-> <<DiagError("Invalid SDN Zone Type")>>,
             panicked |-> FALSE]

(***************************************************************************)
(* exportToUpdateBody: the wire record of an update, with the unset        *)
(* fields named in delete and without type.                                *)
(***************************************************************************)
\* if p == nil { deleteTab = append(deleteTab, name) }
AppendIfNil(p, name) == IF p = Nil THEN <<S(name)>> ELSE <<>>

\* the mutants leave reversedns out, or look at the mtu alone
baseDeleteTab_NoReversedns(body) ==
    AppendIfNil(body.Mtu, "mtu") \o AppendIfNil(body.Nodes, "nodes")
    \o AppendIfNil(body.Ipam, "ipam") \o AppendIfNil(body.Dns, "dns")
    \o AppendIfNil(body.Dnszone, "dnszone")

baseDeleteTab_OnlyMtu(body) ==
    AppendIfNil(body.Mtu, "mtu")

\* the six base attributes, in the order of the code
baseDeleteTab(body) ==
    AppendIfNil(body.Mtu, "mtu") \o AppendIfNil(body.Nodes, "nodes")
    \o AppendIfNil(body.Ipam, "ipam") \o AppendIfNil(body.Dns, "dns")
    \o AppendIfNil(body.Reversedns, "reversedns")
    \o AppendIfNil(body.Dnszone, "dnszone")

\* switch *body.Type
typeDeleteTab(body) ==
    LET zoneType == Deref(body.Type)
    IN  IF zoneType = S("simple") THEN
            AppendIfNil(body.Dhcp, "dhcp")
        ELSE IF zoneType = S("vlan") THEN
            AppendIfNil(body.Bridge, "bridge")
        ELSE IF zoneType = S("vxlan") THEN
            AppendIfNil(body.Peers, "peers")
            \o AppendIfNil(body.VxlanPort, "vxlan-port")
        ELSE IF zoneType = S("qinq") THEN
            AppendIfNil(body.Bridge, "bridge") \o AppendIfNil(body.Tag, "tag")
            \o AppendIfNil(body.VlanProtocol, "vlan-protocol")
        ELSE IF zoneType = S("evpn") THEN
            AppendIfNil(body.Controller, "controller")
            \o AppendIfNil(body.VrfVxlan, "vrf-vxlan")
            \o AppendIfNil(body.Mac, "mac")
            \o AppendIfNil(body.Exitnodes, "exitnodes")
            \o AppendIfNil(body.ExitnodesPrimary, "exitnodes-primary")
            \o AppendIfNil(body.ExitnodesLocalRouting, "exitnodes-local-routing")
            \o AppendIfNil(body.AdvertiseSubnets, "advertise-subnets")
            \o AppendIfNil(body.DisableArpNdSuppression, "disable-arp-nd-suppression")
            \o AppendIfNil(body.RtImport, "rt-import")
        ELSE <<>>

exportToUpdateBody(s) ==
    LET body == exportToSdnZoneBody(s)
        deleteTab == baseDeleteTab(body) \o typeDeleteTab(body)
    IN  [body EXCEPT
           !.Delete = IF Len(deleteTab) > 0
                      THEN Ptr(Join(deleteTab, S(Comma))) ELSE Nil,
           !.Type = Nil]

(***************************************************************************)
(* Inputs of the conversions: resource models.                             *)
(***************************************************************************)
ZoneTypes == {"simple", "vlan", "vxlan", "qinq", "evpn"}

BaseAttrs == {"mtu", "nodes", "ipam", "dns", "reversedns", "dnszone"}
BlockAttrs(t) ==
    CASE t = "simple" -> {"simple.dhcp"}
      [] t = "vlan" -> {"vlan.bridge"}
      [] t = "vxlan" -> {"vxlan.peers", "vxlan.port"}
      [] t = "qinq" -> {"qinq.bridge", "qinq.tag", "qinq.vlan_protocol"}
      [] t = "evpn" -> {"evpn.controller", "evpn.vrf_vxlan", "evpn.mac",
                        "evpn.exitnodes", "evpn.exitnodes_primary",
                        "evpn.exitnodes_local_routing", "evpn.advertise_subnets",
                        "evpn.disable_arp_nd_suppression", "evpn.rt_import"}
AttrsOf(P) == BaseAttrs \cup UNION {BlockAttrs(t) : t \in P}

\* The model with the blocks P populated and the attributes U null; nodes,
\* peers and exitnodes are the values of the three lists where they are set.
MkModel(name, P, U, nodes, peers, exitnodes) ==
    LET str(a, v) == IF a \in U THEN StringNull ELSE StringValue(S(v))
        int(a, v) == IF a \in U THEN Int32Null ELSE Int32Value(v)
        bool(a, v) == IF a \in U THEN BoolNull ELSE BoolValue(v)
        list(a, v) == IF a \in U THEN ListNull ELSE v
        block(t, v) == IF t \in P THEN Ptr(v) ELSE Nil
    IN  [Name |-> StringValue(name),
         MTU |-> int("mtu", 1500),
         Nodes |-> list("nodes", nodes),
         IPAM |-> str("ipam", "pve"),
         DNS |-> str("dns", "dns1"),
         ReverseDNS |-> str("reversedns", "rdns1"),
         DNSZone |-> str("dnszone", "example.com"),
         Simple |-> block("simple",
             sdnZoneSimpleModel(str("simple.dhcp", "dnsmasq"))),
         VLAN |-> block("vlan", sdnZoneVlanModel(str("vlan.bridge", "vmbr0"))),
         VXLAN |-> block("vxlan",
             sdnZoneVxlanModel(list("vxlan.peers", peers), int("vxlan.port", 4789))),
         QinQ |-> block("qinq",
             sdnZoneQinQModel(str("qinq.bridge", "vmbr1"), int("qinq.tag", 100),
                              str("qinq.vlan_protocol", "802.1q"))),
         EVPN |-> block("evpn",
             [Controller |-> str("evpn.controller", "ctrl1"),
              VrfVxlan |-> int("evpn.vrf_vxlan", 4000),
              Mac |-> str("evpn.mac", "32:8e:d1:0c:3a:11"),
              Exitnodes |-> list("evpn.exitnodes", exitnodes),
              ExitnodesPrimary |-> str("evpn.exitnodes_primary", "pve1"),
              ExitnodesLocalRouting |-> bool("evpn.exitnodes_local_routing", TRUE),
              AdvertiseSubnets |-> bool("evpn.advertise_subnets", TRUE),
              DisableArpNdSuppression |->
                  bool("evpn.disable_arp_nd_suppression", FALSE),
              RtImport |-> str("evpn.rt_import", "65000:1")])]

\* element strings of the lists: names, the empty string, a string with a comma
ElemStrings == {S("pve1"), S("pve2"), EmptyString, <<"pve1", Comma, "pve2">>}
NodeList == ListValueFrom(<<S("pve1"), S("pve2")>>)
\* every list of at most MaxLen elements, and the null and the unknown list
ListInputs ==
    {ListNull, ListUnknown} \cup {ListValueFrom(l) : l \in SeqsUpTo(ElemStrings, MaxLen)}

\* m is a model with any blocks populated and any attributes unset, within
\* the bounds
PatternModel(m) ==
    \E P \in SubsetsUpTo(ZoneTypes, MaxBlocks) :
        \E U \in SubsetsUpTo(AttrsOf(P), MaxUnset) :
            \E n \in {NodeList, ListValueFrom(<<>>), ListUnknown} :
                m = MkModel(S("z1"), P, U, n, NodeList, NodeList)

\* models of one variant with every attribute set and any one list
ListModels ==
    {MkModel(S("z1"), {t}, {}, n, NodeList, NodeList) :
        t \in {"simple", "vlan", "qinq"}, n \in ListInputs}
    \cup {MkModel(S("z1"), {"vxlan"}, {}, n, NodeList, NodeList) : n \in ListInputs}
    \cup {MkModel(S("z1"), {"vxlan"}, {}, NodeList, p, NodeList) : p \in ListInputs}
    \cup {MkModel(S("z1"), {"evpn"}, {}, n, NodeList, NodeList) : n \in ListInputs}
    \cup {MkModel(S("z1"), {"evpn"}, {}, NodeList, NodeList, e) : e \in ListInputs}

(***************************************************************************)
(* SpecConv: the three conversions applied to any model.                   *)
(***************************************************************************)
NoOut == [op |-> "none", body |-> ZeroBody, model |-> ZeroModel,
          diags |-> <<>>, panicked |-> FALSE]
NoRes == [op |-> "none", str |-> Nil, list |-> ListNull]
NoInput == [kind |-> "none", list |-> ListNull, str |-> Nil]
NoResp == [err |-> Nil, hasData |-> FALSE, data |-> <<>>]
NoListed == [op |-> "none", err |-> Nil, zones |-> <<>>]
Absent == Nil
NoAnswer == [err |-> Nil, data |-> Nil]
NoLastOp ==
    [op |-> "none", prior |-> Absent, plan |-> ZeroModel, reqErr |-> Nil,
     get |-> NoAnswer, requests |-> <<>>, diags |-> <<>>, wrote |-> FALSE,
     panicked |-> FALSE, requiresReplace |-> FALSE]

Export ==
    /\ out' = [NoOut EXCEPT !.op = "export", !.body = exportToSdnZoneBody(cfg)]
    /\ UNCHANGED <<cfg, lst, res, resp, listed, tfstate, last>>

ExportUpdate ==
    /\ out' = [NoOut EXCEPT !.op = "update", !.body = exportToUpdateBody(cfg)]
    /\ UNCHANGED <<cfg, lst, res, resp, listed, tfstate, last>>

\* importFromSdnZoneBody on a fresh model, of the record exported from cfg
RoundTrip ==
    /\ LET body == exportToSdnZoneBody(cfg)
           r == importFromSdnZoneBody(ZeroModel, body)
       IN  out' = [op |-> "roundtrip", body |-> body, model |-> r.model,
                   diags |-> r.diags, panicked |-> r.panicked]
    /\ UNCHANGED <<cfg, lst, res, resp, listed, tfstate, last>>

InitConv ==
    /\ PatternModel(cfg) \/ cfg \in ListModels
    /\ out = NoOut
    /\ lst = NoInput /\ res = NoRes
    /\ resp = NoResp /\ listed = NoListed
    /\ tfstate = Absent /\ last = NoLastOp

NextConv == Export \/ ExportUpdate \/ RoundTrip

SpecConv == InitConv /\ [][NextConv]_vars

(***************************************************************************)
(* SpecList: the two list<->string helpers applied to any list or string.  *)
(***************************************************************************)
\* every string of at most MaxLen + 1 symbols, and the nil pointer
StringInputs ==
    {Nil} \cup {Ptr(s) : s \in SeqsUpTo({"pve1", "pve2", Comma}, MaxLen + 1)}

ListToString ==
    /\ lst.kind = "list"
    /\ res' = [NoRes EXCEPT !.op = "toString", !.str = convertListToString(lst.list)]
    /\ UNCHANGED <<cfg, out, lst, resp, listed, tfstate, last>>

StringToList ==
    /\ lst.kind = "string"
    /\ res' = [NoRes EXCEPT !.op = "toList", !.list = convertStringToList(lst.str)]
    /\ UNCHANGED <<cfg, out, lst, resp, listed, tfstate, last>>

ListRoundTrip ==
    /\ lst.kind = "list"
    /\ LET str == convertListToString(lst.list)
       IN  res' = [op |-> "roundtrip", str |-> str, list |-> convertStringToList(str)]
    /\ UNCHANGED <<cfg, out, lst, resp, listed, tfstate, last>>

InitList ==
    /\ lst \in {[kind |-> "list", list |-> l, str |-> Nil] : l \in ListInputs}
           \cup {[kind |-> "string", list |-> ListNull, str |-> s] : s \in StringInputs}
    /\ res = NoRes
    /\ cfg = ZeroModel /\ out = NoOut
    /\ resp = NoResp /\ listed = NoListed
    /\ tfstate = Absent /\ last = NoLastOp

NextList == ListToString \/ StringToList \/ ListRoundTrip

SpecList == InitList /\ [][NextList]_vars

(***************************************************************************)
(* The zones client.  An error is a pointer to its message, a sequence of  *)
(* words; DoRequest's answer is its error and the decoded data field.      *)
(***************************************************************************)
\* most zone records in the server's answer to a List
MaxZones == 3

ErrNoDataObjectInResponse ==
    <<"the", "server", "did", "not", "include", "a", "data", "object",
      "in", "the", "response">>
\* fmt.Errorf("error ... SDN zone(s): %w", err)
Wrap(prefix, err) == Ptr(prefix \o Deref(err))

\* strings.Contains(s, substr), on words
Contains(s, substr) ==
    \E i \in 0..(Len(s) - Len(substr)) :
        \A k \in 1..Len(substr) : s[i + k] = substr[k]

\* the byte a one-character symbol stands for
Byte(c) == CASE c = "B" -> 66 [] c = "a" -> 97 [] c = "b" -> 98
\* Go's s < t on strings: bytewise, a proper prefix first
RECURSIVE StringLess(_, _)
StringLess(s, t) ==
    IF Len(t) = 0 THEN FALSE
    ELSE IF Len(s) = 0 THEN TRUE
    ELSE IF Byte(s[1]) # Byte(t[1]) THEN Byte(s[1]) < Byte(t[1])
    ELSE StringLess(Tail(s), Tail(t))

\* the less function handed to sort.Slice
ListLess(x, y) == StringLess(x.Name, y.Name)

\* the orders sort.Slice(data, less) can leave data in (it is not stable)
SortSlice(data) ==
    LET n == Len(data)
        perms == {f \in [1..n -> 1..n] : \A i, j \in 1..n : f[i] = f[j] => i = j}
        sorted(s) == \A i, j \in 1..n : i < j => ~ListLess(s[j], s[i])
    IN  {s \in {[i \in 1..n |-> data[f[i]]] : f \in perms} : sorted(s)}

\* the mutant leaves the records in the server's order
ClientList_Unsorted(r) ==
    IF r.err # Nil THEN
        {[zones |-> <<>>, err |-> Wrap(<<"error", "listing", "SDN", "zones:">>, r.err)]}
    ELSE IF ~r.hasData THEN
        {[zones |-> <<>>, err |-> Ptr(ErrNoDataObjectInResponse)]}
    ELSE {[zones |-> r.data, err |-> Nil]}

\* Client.List: the set of its possible returns on the answer r
ClientList(r) ==
    IF r.err # Nil THEN
        {[zones |-> <<>>, err |-> Wrap(<<"error", "listing", "SDN", "zones:">>, r.err)]}
    ELSE IF ~r.hasData THEN
        {[zones |-> <<>>, err |-> Ptr(ErrNoDataObjectInResponse)]}
    ELSE {[zones |-> s, err |-> Nil] : s \in SortSlice(r.data)}

\* Client.Get on the answer r: the zone and the error
ClientGet(r) ==
    IF r.err # Nil THEN
        [zone |-> Nil, err |-> Wrap(<<"error", "reading", "SDN", "zone:">>, r.err)]
    ELSE IF r.data = Nil THEN
        [zone |-> Nil, err |-> Ptr(ErrNoDataObjectInResponse)]
    ELSE [zone |-> r.data, err |-> Nil]

\* Client.Create, Client.Update, Client.Delete on the answer's error
ClientCreate(err) ==
    IF err # Nil THEN Wrap(<<"error", "creating", "SDN", "zone:">>, err) ELSE Nil
ClientUpdate(err) ==
    IF err # Nil THEN Wrap(<<"error", "updating", "SDN", "zone:">>, err) ELSE Nil
ClientDelete(err) ==
    IF err # Nil THEN Wrap(<<"error", "deleting", "SDN", "zone:">>, err) ELSE Nil

(***************************************************************************)
(* SpecClient: Client.List on any answer of the server.                    *)
(***************************************************************************)
ApiErrors ==
    {<<"500", "sdn", "zone", "object", "ID", "does", "not", "exist">>,
     <<"595", "connection", "refused">>,
     <<"500", "zone", "does", "not", "yet", "exist">>}

ListedZones ==
    {[ZeroBody EXCEPT !.Name = n, !.Type = Ptr(S(t))] :
        n \in {<<"a">>, <<"a", "b">>, <<"b">>, <<"B">>}, t \in {"simple", "vlan"}}

ListAnswers ==
    {[err |-> Ptr(e), hasData |-> FALSE, data |-> <<>>] : e \in ApiErrors}
    \cup {[err |-> Nil, hasData |-> FALSE, data |-> <<>>]}
    \cup {[err |-> Nil, hasData |-> TRUE, data |-> d] :
            d \in SeqsUpTo(ListedZones, MaxZones)}

List ==
    /\ \E r \in ClientList(resp) :
           listed' = [op |-> "List", err |-> r.err, zones |-> r.zones]
    /\ UNCHANGED <<cfg, out, lst, res, resp, tfstate, last>>

InitClient ==
    /\ resp \in ListAnswers
    /\ listed = NoListed
    /\ cfg = ZeroModel /\ out = NoOut
    /\ lst = NoInput /\ res = NoRes
    /\ tfstate = Absent /\ last = NoLastOp

NextClient == List

SpecClient == InitClient /\ [][NextClient]_vars

(***************************************************************************)
(* The resource schema: what the host runtime does with it before it calls *)
(* a handler (defaults, plan modifiers) and when a handler reads the plan  *)
(* or the state into the model or writes the model to the state.           *)
(***************************************************************************)
\* the attribute names of the schema's evpn block and the tfsdk tags of
\* sdnZoneEvpnModel; the framework converts an object to or from a struct
\* only if the two sets are equal, and reports an error otherwise
EvpnSchemaAttrs ==
    {"controller", "vfr_vxlan", "mac", "exitnodes", "exitnodes_primary",
     "exitnodes_local_routing", "advertise_subnets",
     "disable_arp_nd_suppression", "rt_import"}
EvpnModelAttrs ==
    {"controller", "vrf_vxlan", "mac", "exitnodes", "exitnodes_primary",
     "exitnodes_local_routing", "advertise_subnets",
     "disable_arp_nd_suppression", "rt_import"}

\* req.Plan.Get(ctx, &plan), req.State.Get(ctx, &state): the diagnostics
PlanGet(m) ==
    IF m.EVPN # Nil /\ EvpnSchemaAttrs # EvpnModelAttrs
    THEN <<DiagError("Value Conversion Error")>> ELSE <<>>
\* resp.State.Set(ctx, &model): the diagnostics; the state is set without error
StateSet(m) ==
    IF m.EVPN # Nil /\ EvpnSchemaAttrs # EvpnModelAttrs
    THEN <<DiagError("Value Conversion Error")>> ELSE <<>>

\* Default: stringdefault.StaticString("pve") on ipam and ("802.1q") on
\* qinq.vlan_protocol: the plan of a configuration
PlanOf(config) ==
    LET withIpam == IF IsNull(config.IPAM)
                    THEN [config EXCEPT !.IPAM = StringValue(S("pve"))]
                    ELSE config
    IN  IF withIpam.QinQ # Nil /\ IsNull(Deref(withIpam.QinQ).VlanProtocol)
        THEN [withIpam EXCEPT !.QinQ =
                 Ptr([Deref(withIpam.QinQ) EXCEPT
                        !.VlanProtocol = StringValue(S("802.1q"))])]
        ELSE withIpam

\* the mutant asks for a replacement only when a block is removed
recreatemodifier_OnlyRemoved(stateValue, planValue) ==
    stateValue # Nil /\ planValue = Nil

\* recreatemodifier: RequiresReplaceIf on each of the five blocks
recreatemodifier(stateValue, planValue) ==
    (stateValue = Nil) # (planValue = Nil)

\* whether the plan modifiers of the schema mark the plan for replacement:
\* stringplanmodifier.RequiresReplace on name, recreatemodifier on the blocks
RequiresReplace(state, plan) ==
    \/ state.Name # plan.Name
    \/ recreatemodifier(state.Simple, plan.Simple)
    \/ recreatemodifier(state.VLAN, plan.VLAN)
    \/ recreatemodifier(state.VXLAN, plan.VXLAN)
    \/ recreatemodifier(state.QinQ, plan.QinQ)
    \/ recreatemodifier(state.EVPN, plan.EVPN)

(***************************************************************************)
(* The handlers.  Each is a function of the model it is given and of the   *)
(* server's answers; its result is the requests it issued, its             *)
(* diagnostics, whether it set the state and to what, and whether the      *)
(* provider process panicked.                                              *)
(***************************************************************************)
DoesNotExist == <<"does", "not", "exist">>

Request(method, name, body) == [method |-> method, name |-> name, body |-> body]
Outcome(requests, diags, wrote, state, panicked) ==
    [requests |-> requests, diags |-> diags, wrote |-> wrote, state |-> state,
     panicked |-> panicked]

\* the mutant drops the diagnostics of the import
read_DropsImportDiags(model, getAnswer) ==
    LET r == ClientGet(getAnswer)
    IN  IF r.err # Nil THEN
            IF Contains(Deref(r.err), DoesNotExist) THEN
                [model |-> RemoveAllAttributes(model),
                 diags |-> <<DiagWarning("SDN Zone Not Found")>>,
                 panicked |-> FALSE]
            ELSE
                [model |-> model,
                 diags |-> <<DiagError("Error listing SDN Zones")>>,
                 panicked |-> FALSE]
        ELSE [importFromSdnZoneBody(model, Deref(r.zone)) EXCEPT !.diags = <<>>]

\* read: the model from the server's answer to the Get
read(model, getAnswer) ==
    LET r == ClientGet(getAnswer)
    IN  IF r.err # Nil THEN
            IF Contains(Deref(r.err), DoesNotExist) THEN
                [model |-> RemoveAllAttributes(model),
                 diags |-> <<DiagWarning("SDN Zone Not Found")>>,
                 panicked |-> FALSE]
            ELSE
                [model |-> model,
                 diags |-> <<DiagError("Error listing SDN Zones")>>,
                 panicked |-> FALSE]
        ELSE importFromSdnZoneBody(model, Deref(r.zone))

\* r.read(...); if HasError return; resp.State.Set(...): the common tail of
\* Create, Read and Update, after the requests and diagnostics so far
readAndSet(model, requests, diags, getAnswer) ==
    LET r == read(model, getAnswer)
        reqs == Append(requests, Request("GET", ValueString(model.Name), ZeroBody))
        d == diags \o r.diags
    IN  IF r.panicked THEN Outcome(reqs, d, FALSE, Absent, TRUE)
        ELSE IF HasError(d) THEN Outcome(reqs, d, FALSE, Absent, FALSE)
        ELSE LET set == StateSet(r.model)
             IN  IF HasError(set)
                 THEN Outcome(reqs, d \o set, FALSE, Absent, FALSE)
                 ELSE Outcome(reqs, d \o set, TRUE, Ptr(r.model), FALSE)

\* the mutant goes on to the read when the POST fails as "does not exist"
resourceCreate_ReadsAfterNotFound(plan, postErr, getAnswer) ==
    LET diags == PlanGet(plan)
    IN  IF HasError(diags) THEN Outcome(<<>>, diags, FALSE, Absent, FALSE)
        ELSE LET body == exportToSdnZoneBody(plan)
                 reqs == <<Request("POST", EmptyString, body)>>
                 err == ClientCreate(postErr)
             IN  IF err # Nil /\ ~Contains(Deref(err), DoesNotExist) THEN
                     Outcome(reqs, diags \o <<DiagError("Error Creating SDN Zone")>>,
                             FALSE, Absent, FALSE)
                 ELSE readAndSet(plan, reqs, diags, getAnswer)

resourceCreate(plan, postErr, getAnswer) ==
    LET diags == PlanGet(plan)
    IN  IF HasError(diags) THEN Outcome(<<>>, diags, FALSE, Absent, FALSE)
        ELSE LET body == exportToSdnZoneBody(plan)
                 reqs == <<Request("POST", EmptyString, body)>>
                 err == ClientCreate(postErr)
             IN  IF err # Nil THEN
                     Outcome(reqs, diags \o <<DiagError("Error Creating SDN Zone")>>,
                             FALSE, Absent, FALSE)
                 ELSE readAndSet(plan, reqs, diags, getAnswer)

resourceRead(state, getAnswer) ==
    LET diags == PlanGet(state)
    IN  IF HasError(diags) THEN Outcome(<<>>, diags, FALSE, Absent, FALSE)
        ELSE readAndSet(state, <<>>, diags, getAnswer)

resourceUpdate(plan, putErr, getAnswer) ==
    LET diags == PlanGet(plan)
    IN  IF HasError(diags) THEN Outcome(<<>>, diags, FALSE, Absent, FALSE)
        ELSE LET body == exportToUpdateBody(plan)
                 reqs == <<Request("PUT", ValueString(plan.Name), body)>>
                 err == ClientUpdate(putErr)
             IN  IF err # Nil THEN
                     Outcome(reqs, diags \o <<DiagError("Error Updating SDN Zone")>>,
                             FALSE, Absent, FALSE)
                 ELSE readAndSet(plan, reqs, diags, getAnswer)

\* the mutant reports every failure of the DELETE as an error
resourceDelete_NoDowngrade(state, deleteErr) ==
    LET diags == PlanGet(state)
    IN  IF HasError(diags) THEN Outcome(<<>>, diags, FALSE, Absent, FALSE)
        ELSE LET reqs == <<Request("DELETE", ValueString(state.Name), ZeroBody)>>
                 err == ClientDelete(deleteErr)
             IN  IF err # Nil THEN
                     Outcome(reqs, diags \o <<DiagError("Error Deleting SDN Zone")>>,
                             FALSE, Absent, FALSE)
                 ELSE Outcome(reqs, diags, FALSE, Absent, FALSE)

resourceDelete(state, deleteErr) ==
    LET diags == PlanGet(state)
    IN  IF HasError(diags) THEN Outcome(<<>>, diags, FALSE, Absent, FALSE)
        ELSE LET reqs == <<Request("DELETE", ValueString(state.Name), ZeroBody)>>
                 err == ClientDelete(deleteErr)
             IN  IF err # Nil THEN
                     IF Contains(Deref(err), DoesNotExist) THEN
                         Outcome(reqs, diags \o <<DiagWarning("SDN Zone Not Found")>>,
                                 FALSE, Absent, FALSE)
                     ELSE
                         Outcome(reqs,
                                 diags \o <<DiagError("Error Deleting SDN Zone")>>,
                                 FALSE, Absent, FALSE)
                 ELSE Outcome(reqs, diags, FALSE, Absent, FALSE)

(***************************************************************************)
(* Spec: the host runtime driving one resource through Create, Read,       *)
(* Update and Delete, the server answering each request in any way.        *)
(***************************************************************************)
ZoneNames == {S("z1"), S("z2")}

\* configurations that pass the schema's validation: one variant block, the
\* required attributes of the block set
Configs ==
    {MkModel(n, {t},
             {"nodes", "ipam", "reversedns", "dnszone", "simple.dhcp",
              "qinq.vlan_protocol", "dns"} \cup U,
             ListNull, NodeList, NodeList) :
        n \in ZoneNames, t \in ZoneTypes, U \in SUBSET {"mtu"}}

\* the zone the server holds under a name: of any type the API knows, or
\* without a type, with or without an mtu
ServerZone(name, t, mtu) ==
    LET base == [ZeroBody EXCEPT !.Name = name, !.Mtu = mtu, !.Ipam = Ptr(S("pve")),
                                 !.Type = IF t = "" THEN Nil ELSE Ptr(S(t))]
    IN  CASE t = "vlan" -> [base EXCEPT !.Bridge = Ptr(S("vmbr0"))]
          [] t = "vxlan" -> [base EXCEPT !.Peers = Ptr(<<"pve1", Comma, "pve2">>),
                                         !.VxlanPort = Ptr(4789)]
          [] t = "qinq" -> [base EXCEPT !.Bridge = Ptr(S("vmbr1")), !.Tag = Ptr(100),
                                        !.VlanProtocol = Ptr(S("802.1q"))]
          [] t = "evpn" -> [base EXCEPT !.Controller = Ptr(S("ctrl1")),
                                        !.VrfVxlan = Ptr(4000)]
          [] OTHER -> base

GetAnswers(name) ==
    {[err |-> Ptr(e), data |-> Nil] : e \in ApiErrors}
    \cup {[err |-> Nil, data |-> Nil]}
    \cup {[err |-> Nil, data |-> Ptr(ServerZone(name, t, Nil))] :
            t \in ZoneTypes \cup {"faucet", ""}}
    \cup {[err |-> Nil, data |-> Ptr(ServerZone(name, "vlan", Ptr(1500)))]}

WriteErrors == {Nil} \cup {Ptr(e) : e \in ApiErrors}
\* the answers to the request of a Create or Update and to the Get after it;
\* there is an answer to the Get only if the request succeeded
WriteAnswers(name) ==
    {<<Ptr(e), NoAnswer>> : e \in ApiErrors}
    \cup {<<Nil, a>> : a \in GetAnswers(name)}

\* what the invocation of a handler leaves behind
Invocation(op, prior, plan, reqErr, getAnswer, o) ==
    [op |-> op, prior |-> prior, plan |-> plan, reqErr |-> reqErr,
     get |-> getAnswer, requests |-> o.requests, diags |-> o.diags,
     wrote |-> o.wrote, panicked |-> o.panicked, requiresReplace |-> FALSE]

\* the host runtime plans a change of the existing resource
PlanResourceChange ==
    /\ tfstate # Absent
    /\ \E config \in Configs :
           last' = [NoLastOp EXCEPT
                      !.op = "Plan", !.prior = tfstate, !.plan = PlanOf(config),
                      !.requiresReplace =
                          RequiresReplace(Deref(tfstate), PlanOf(config))]
    /\ UNCHANGED <<cfg, out, lst, res, resp, listed, tfstate>>

Create ==
    /\ tfstate = Absent
    /\ \E config \in Configs :
         \E answers \in WriteAnswers(ValueString(config.Name)) :
           LET plan == PlanOf(config)
               postErr == answers[1]
               getAnswer == answers[2]
               o == resourceCreate(plan, postErr, getAnswer)
           IN  /\ last' = Invocation("Create", tfstate, plan, postErr, getAnswer, o)
               /\ tfstate' = IF o.wrote THEN o.state ELSE tfstate
    /\ UNCHANGED <<cfg, out, lst, res, resp, listed>>

Read ==
    /\ tfstate # Absent
    /\ \E getAnswer \in GetAnswers(ValueString(Deref(tfstate).Name)) :
           LET o == resourceRead(Deref(tfstate), getAnswer)
           IN  /\ last' = Invocation("Read", tfstate, ZeroModel, Nil, getAnswer, o)
               /\ tfstate' = IF o.wrote THEN o.state ELSE tfstate
    /\ UNCHANGED <<cfg, out, lst, res, resp, listed>>

\* the host runtime calls Update only with a plan not marked for replacement
Update ==
    /\ tfstate # Absent
    /\ \E config \in Configs :
         \E answers \in WriteAnswers(ValueString(config.Name)) :
           LET plan == PlanOf(config)
               putErr == answers[1]
               getAnswer == answers[2]
               o == resourceUpdate(plan, putErr, getAnswer)
           IN  /\ ~RequiresReplace(Deref(tfstate), plan)
               /\ last' = Invocation("Update", tfstate, plan, putErr, getAnswer, o)
               /\ tfstate' = IF o.wrote THEN o.state ELSE tfstate
    /\ UNCHANGED <<cfg, out, lst, res, resp, listed>>

\* the host runtime removes the state when Delete reports no error
Delete ==
    /\ tfstate # Absent
    /\ \E deleteErr \in WriteErrors :
           LET o == resourceDelete(Deref(tfstate), deleteErr)
           IN  /\ last' = Invocation("Delete", tfstate, ZeroModel, deleteErr,
                                     NoAnswer, o)
               /\ tfstate' = IF HasError(o.diags) \/ o.panicked
                             THEN tfstate ELSE Absent
    /\ UNCHANGED <<cfg, out, lst, res, resp, listed>>

Init ==
    /\ tfstate = Absent
    /\ last = NoLastOp
    /\ cfg = ZeroModel /\ out = NoOut
    /\ lst = NoInput /\ res = NoRes
    /\ resp = NoResp /\ listed = NoListed

Next == PlanResourceChange \/ Create \/ Read \/ Update \/ Delete

Spec == Init /\ [][Next]_vars

(***************************************************************************)
(* Properties of the conversions (SpecConv).                               *)
(***************************************************************************)
Known(v) == v.state = "known"
CommaFree(s) == \A i \in 1..Len(s) : s[i] # Comma
Populated(m) ==
    {t \in ZoneTypes :
        \/ t = "simple" /\ m.Simple # Nil
        \/ t = "vlan" /\ m.VLAN # Nil
        \/ t = "vxlan" /\ m.VXLAN # Nil
        \/ t = "qinq" /\ m.QinQ # Nil
        \/ t = "evpn" /\ m.EVPN # Nil}
\* the lists of the model that its populated blocks and its base hold
ListsOf(m) ==
    {m.Nodes}
    \cup (IF m.VXLAN # Nil THEN {Deref(m.VXLAN).Peers} ELSE {})
    \cup (IF m.EVPN # Nil THEN {Deref(m.EVPN).Exitnodes} ELSE {})
\* every scalar attribute of the model's base and populated blocks is set
ScalarsKnown(m) ==
    /\ Known(m.Name) /\ Known(m.MTU) /\ Known(m.IPAM) /\ Known(m.DNS)
    /\ Known(m.ReverseDNS) /\ Known(m.DNSZone)
    /\ m.Simple # Nil => Known(Deref(m.Simple).AutomaticDHCP)
    /\ m.VLAN # Nil => Known(Deref(m.VLAN).Bridge)
    /\ m.VXLAN # Nil => Known(Deref(m.VXLAN).Port)
    /\ m.QinQ # Nil =>
           /\ Known(Deref(m.QinQ).Bridge) /\ Known(Deref(m.QinQ).Tag)
           /\ Known(Deref(m.QinQ).VlanProtocol)
    /\ m.EVPN # Nil =>
           LET e == Deref(m.EVPN)
           IN  /\ Known(e.Controller) /\ Known(e.VrfVxlan) /\ Known(e.Mac)
               /\ Known(e.ExitnodesPrimary) /\ Known(e.ExitnodesLocalRouting)
               /\ Known(e.AdvertiseSubnets) /\ Known(e.DisableArpNdSuppression)
               /\ Known(e.RtImport)
\* exactly one variant block, every attribute set, every list non-empty
FullyPopulated(m) ==
    /\ Cardinality(Populated(m)) = 1
    /\ ScalarsKnown(m)
    /\ \A l \in ListsOf(m) : Known(l) /\ Len(l.value) >= 1
\* the comma-joined form of the list can be split back into the list
Splittable(l) ==
    /\ \A i \in 1..Len(l.value) : CommaFree(l.value[i].value)
    /\ ~(Len(l.value) = 1 /\ l.value[1].value = EmptyString)

\* C1 as stated: the round trip export then import on a fresh model is the
\* identity on every fully populated one-variant model.
C1_RoundTripAnyList ==
    (out.op = "roundtrip" /\ FullyPopulated(cfg)) => out.model = cfg

\* C1, amended: the round trip export then import on a fresh model is the
\* identity on every fully populated one-variant model whose list elements
\* hold no comma and none of whose lists is the one-element list [""].
C1_RoundTrip ==
    (/\ out.op = "roundtrip"
     /\ FullyPopulated(cfg)
     /\ \A l \in ListsOf(cfg) : Splittable(l))
    => (out.model = cfg /\ out.diags = <<>> /\ ~out.panicked)

C1_Witness ==
    /\ out.op = "roundtrip"
    /\ FullyPopulated(cfg)
    /\ \A l \in ListsOf(cfg) : Splittable(l)
    /\ cfg.EVPN # Nil
    /\ Len(Deref(cfg.EVPN).Exitnodes.value) = 2
    /\ out.body.Exitnodes = Ptr(<<"pve1", Comma, "pve2">>)
    /\ out.model = cfg

\* wire name and record field of the attributes applicable to a zone type
BaseWire ==
    {<<"mtu", "Mtu">>, <<"nodes", "Nodes">>, <<"ipam", "Ipam">>, <<"dns", "Dns">>,
     <<"reversedns", "Reversedns">>, <<"dnszone", "Dnszone">>}
VariantWire(zoneType) ==
    CASE zoneType = S("simple") -> {<<"dhcp", "Dhcp">>}
      [] zoneType = S("vlan") -> {<<"bridge", "Bridge">>}
      [] zoneType = S("vxlan") -> {<<"peers", "Peers">>, <<"vxlan-port", "VxlanPort">>}
      [] zoneType = S("qinq") ->
            {<<"bridge", "Bridge">>, <<"tag", "Tag">>,
             <<"vlan-protocol", "VlanProtocol">>}
      [] zoneType = S("evpn") ->
            {<<"controller", "Controller">>, <<"vrf-vxlan", "VrfVxlan">>,
             <<"mac", "Mac">>, <<"exitnodes", "Exitnodes">>,
             <<"exitnodes-primary", "ExitnodesPrimary">>,
             <<"exitnodes-local-routing", "ExitnodesLocalRouting">>,
             <<"advertise-subnets", "AdvertiseSubnets">>,
             <<"disable-arp-nd-suppression", "DisableArpNdSuppression">>,
             <<"rt-import", "RtImport">>}
      [] OTHER -> {}
AllVariantFields ==
    {"Dhcp", "Bridge", "Peers", "VxlanPort", "Tag", "VlanProtocol", "Controller",
     "VrfVxlan", "Mac", "Exitnodes", "ExitnodesPrimary", "ExitnodesLocalRouting",
     "AdvertiseSubnets", "DisableArpNdSuppression", "RtImport"}
\* the wire names a delete field lists
DeleteNames(delete) ==
    IF delete = Nil THEN <<>> ELSE Split(Deref(delete))
SeqToSet(s) == {s[i] : i \in 1..Len(s)}

\* C2: the update body has no type, and its delete field is the comma-joined
\* list of exactly the wire names that are null in the exported record and
\* applicable to its zone type (base attributes and the attributes of the
\* variant that decided the type), each once; delete is absent when there
\* is none; every other field is the exported record's.
C2_UpdateBodyDelete ==
    out.op = "update" =>
        LET b == exportToSdnZoneBody(cfg)
            applicable == BaseWire \cup VariantWire(Deref(b.Type))
            unset == {S(e[1]) : e \in {x \in applicable : b[x[2]] = Nil}}
            names == DeleteNames(out.body.Delete)
        IN  /\ out.body.Type = Nil
            /\ SeqToSet(names) = unset
            /\ Len(names) = Cardinality(unset)
            /\ (unset = {}) <=> (out.body.Delete = Nil)
            /\ out.body = [b EXCEPT !.Type = Nil, !.Delete = out.body.Delete]

C2_Witness ==
    /\ out.op = "update"
    /\ Populated(cfg) = {"qinq"}
    /\ IsNull(cfg.MTU) /\ IsNull(Deref(cfg.QinQ).Tag)
    /\ out.body.Delete = Ptr(<<"mtu", Comma, "tag">>)
    /\ out.body.Bridge = Ptr(S("vmbr1"))
    /\ out.body.Type = Nil

\* the variant blocks in the order the if-chain tests them
VariantOrder == <<"simple", "vlan", "vxlan", "qinq", "evpn">>
FirstPopulated(m) ==
    LET i == CHOOSE k \in 1..5 :
                 /\ VariantOrder[k] \in Populated(m)
                 /\ \A j \in 1..(k - 1) : VariantOrder[j] \notin Populated(m)
    IN  VariantOrder[i]
\* the pointer a set scalar or list attribute is sent as
Sent(v) == IF Known(v) THEN Ptr(v.value) ELSE Nil
SentList(l) ==
    IF Known(l)
    THEN Ptr(Join([i \in 1..Len(l.value) |-> l.value[i].value], S(Comma)))
    ELSE Nil
\* the variant fields of the wire record, as the block of type t gives them
VariantFields(m, t) ==
    LET none == [f \in AllVariantFields |-> Nil]
    IN  CASE t = "simple" ->
                [none EXCEPT !["Dhcp"] = Sent(Deref(m.Simple).AutomaticDHCP)]
          [] t = "vlan" ->
                [none EXCEPT !["Bridge"] = Sent(Deref(m.VLAN).Bridge)]
          [] t = "vxlan" ->
                [none EXCEPT !["Peers"] = SentList(Deref(m.VXLAN).Peers),
                             !["VxlanPort"] = Sent(Deref(m.VXLAN).Port)]
          [] t = "qinq" ->
                [none EXCEPT !["Bridge"] = Sent(Deref(m.QinQ).Bridge),
                             !["Tag"] = Sent(Deref(m.QinQ).Tag),
                             !["VlanProtocol"] = Sent(Deref(m.QinQ).VlanProtocol)]
          [] t = "evpn" ->
                LET e == Deref(m.EVPN)
                IN  [none EXCEPT
                       !["Controller"] = Sent(e.Controller),
                       !["VrfVxlan"] = Sent(e.VrfVxlan),
                       !["Mac"] = Sent(e.Mac),
                       !["Exitnodes"] = SentList(e.Exitnodes),
                       !["ExitnodesPrimary"] = Sent(e.ExitnodesPrimary),
                       !["ExitnodesLocalRouting"] = Sent(e.ExitnodesLocalRouting),
                       !["AdvertiseSubnets"] = Sent(e.AdvertiseSubnets),
                       !["DisableArpNdSuppression"] = Sent(e.DisableArpNdSuppression),
                       !["RtImport"] = Sent(e.RtImport)]

\* C3 as stated: for every model the exported type is one of the five zone
\* types.
C3_TypeAlwaysOneOfFive ==
    out.op = "export" =>
        \E t \in ZoneTypes : out.body.Type = Ptr(S(t))

\* C3, amended: for every model with at least one variant block populated,
\* the exported type is the discriminant of the first populated block in the
\* order simple, vlan, vxlan, qinq, evpn, the variant fields of the record are
\* that block's and no other block's; with no block populated the type is the
\* empty string and no variant field is set.
C3_TypeOfFirstPopulated ==
    out.op = "export" =>
        IF Populated(cfg) # {}
        THEN LET t == FirstPopulated(cfg)
             IN  /\ out.body.Type = Ptr(S(t))
                 /\ \A f \in AllVariantFields :
                        out.body[f] = VariantFields(cfg, t)[f]
        ELSE /\ out.body.Type = Ptr(EmptyString)
             /\ \A f \in AllVariantFields : out.body[f] = Nil

C3_Witness ==
    /\ out.op = "export"
    /\ Populated(cfg) = {"vlan", "qinq"}
    /\ Known(Deref(cfg.QinQ).Tag)
    /\ out.body.Type = Ptr(S("vlan"))
    /\ out.body.Bridge = Ptr(S("vmbr0"))
    /\ out.body.Tag = Nil

(***************************************************************************)
(* Properties of the list helpers (SpecList).                              *)
(***************************************************************************)
\* C8: a list of comma-free strings converted to a string and back is the
\* same list; an empty and a null list are converted to the nil string; a
\* nil and an empty string are converted to the null list.
C8_ListStringConversion ==
    /\ (/\ res.op = "roundtrip"
        /\ Known(lst.list)
        /\ \A i \in 1..Len(lst.list.value) : CommaFree(lst.list.value[i].value))
       => res.list = lst.list
    /\ (/\ res.op = "toString"
        /\ (IsNull(lst.list) \/ (Known(lst.list) /\ Len(lst.list.value) = 0)))
       => res.str = Nil
    /\ (/\ res.op = "toList"
        /\ (lst.str = Nil \/ Deref(lst.str) = EmptyString))
       => res.list = ListNull

(***************************************************************************)
(* Properties of the client (SpecClient).                                  *)
(***************************************************************************)
Count(s, x) == Cardinality({i \in 1..Len(s) : s[i] = x})
IsPermutation(s, t) ==
    /\ Len(s) = Len(t)
    /\ \A i \in 1..Len(t) : Count(s, t[i]) = Count(t, t[i])

\* C7: a successful List returns the server's records, each as often as the
\* server sent it, in an order ascending by name; with the data field absent
\* it returns the no-data error, and with a failed request the transport
\* error behind the words "error listing SDN zones:".
C7_ListSorted ==
    listed.op = "List" =>
        IF resp.err # Nil THEN
            /\ listed.err # Nil
            /\ Deref(listed.err) =
                   <<"error", "listing", "SDN", "zones:">> \o Deref(resp.err)
        ELSE IF ~resp.hasData THEN
            listed.err = Ptr(ErrNoDataObjectInResponse)
        ELSE
            /\ listed.err = Nil
            /\ IsPermutation(listed.zones, resp.data)
            /\ \A i \in 1..(Len(listed.zones) - 1) :
                   \/ listed.zones[i].Name = listed.zones[i + 1].Name
                   \/ StringLess(listed.zones[i].Name, listed.zones[i + 1].Name)

C7_Witness ==
    /\ listed.op = "List"
    /\ resp.err = Nil /\ resp.hasData
    /\ Len(resp.data) = 3
    /\ resp.data[1].Name = <<"b">> /\ resp.data[2].Name = <<"a", "b">>
    /\ resp.data[3].Name = <<"B">>
    /\ listed.zones[1].Name = <<"B">> /\ listed.zones[2].Name = <<"a", "b">>
    /\ listed.zones[3].Name = <<"b">>

(***************************************************************************)
(* Properties of the handlers (Spec).                                      *)
(***************************************************************************)
CRU == {"Create", "Read", "Update"}
HasWarning(diags) == \E i \in 1..Len(diags) : diags[i].severity = "warning"
\* the Get of the last invocation failed as "not found" / failed otherwise
GetNotFound ==
    last.get.err # Nil /\ Contains(Deref(last.get.err), DoesNotExist)
GetOtherFailure ==
    \/ last.get.err # Nil /\ ~Contains(Deref(last.get.err), DoesNotExist)
    \/ last.get.err = Nil /\ last.get.data = Nil
\* the Get of the last invocation was issued
GetIssued ==
    \E i \in 1..Len(last.requests) : last.requests[i].method = "GET"
NameOnly(name) == [ZeroModel EXCEPT !.Name = name]

\* C4, on the runs in which the Get returned a record: the model that
\* Create, Read or Update writes to the state has exactly one variant block
\* populated, the block of the type of the record the Get returned.
C4_OneBlockOfFetchedType ==
    (last.op \in CRU /\ last.wrote /\ GetIssued /\ last.get.data # Nil) =>
        \E t \in ZoneTypes :
            /\ Deref(last.get.data).Type = Ptr(S(t))
            /\ Populated(Deref(tfstate)) = {t}

\* C5: a Read whose Get fails with a message containing "does not exist"
\* reports a warning and no error and writes the state with the name kept
\* and everything else null; a Read whose Get fails in another way reports an
\* error and leaves the state as it was.
C5_ReadNotFound ==
    last.op = "Read" =>
        /\ GetNotFound =>
               /\ HasWarning(last.diags) /\ ~HasError(last.diags)
               /\ last.wrote
               /\ tfstate = Ptr(NameOnly(Deref(last.prior).Name))
        /\ GetOtherFailure =>
               /\ HasError(last.diags)
               /\ ~last.wrote
               /\ tfstate = last.prior

C5_Witness ==
    /\ last.op = "Read"
    /\ GetNotFound
    /\ Populated(Deref(last.prior)) = {"vlan"}
    /\ Known(Deref(last.prior).MTU)
    /\ tfstate = Ptr(NameOnly(StringValue(S("z1"))))
    /\ HasWarning(last.diags)

\* C6: a Delete whose DELETE fails with a message containing "does not
\* exist" reports a warning and no error, and the resource leaves the state;
\* a Delete whose DELETE fails in another way reports an error and the
\* resource stays in the state.
C6_DeleteNotFound ==
    (last.op = "Delete" /\ last.reqErr # Nil) =>
        IF Contains(Deref(last.reqErr), DoesNotExist)
        THEN /\ HasWarning(last.diags) /\ ~HasError(last.diags)
             /\ tfstate = Absent
        ELSE /\ HasError(last.diags)
             /\ tfstate = last.prior /\ tfstate # Absent

C6_Witness ==
    /\ last.op = "Delete"
    /\ last.reqErr # Nil /\ Contains(Deref(last.reqErr), DoesNotExist)
    /\ Len(last.requests) = 1 /\ last.requests[1].method = "DELETE"
    /\ HasWarning(last.diags)
    /\ tfstate = Absent

\* the scenario of C9: the vlan zone z1 on bridge vmbr0 whose mtu was set in
\* the prior state and is unset in the plan, no other optional attribute but
\* the defaulted ipam being set in either
ScenarioZone(m) ==
    /\ m.Name = StringValue(S("z1"))
    /\ Populated(m) = {"vlan"}
    /\ Deref(m.VLAN).Bridge = StringValue(S("vmbr0"))
    /\ m.IPAM = StringValue(S("pve"))
    /\ IsNull(m.Nodes) /\ IsNull(m.DNS) /\ IsNull(m.ReverseDNS) /\ IsNull(m.DNSZone)
ClearsMtu ==
    /\ last.op = "Update"
    /\ Len(last.requests) >= 1 /\ last.requests[1].method = "PUT"
    /\ ScenarioZone(Deref(last.prior)) /\ Known(Deref(last.prior).MTU)
    /\ ScenarioZone(last.plan) /\ IsNull(last.plan.MTU)
BaseModelWire ==
    {<<"mtu", "MTU">>, <<"nodes", "Nodes">>, <<"ipam", "IPAM">>, <<"dns", "DNS">>,
     <<"reversedns", "ReverseDNS">>, <<"dnszone", "DNSZone">>}

\* C9 as stated: the update that clears the mtu of the scenario's zone sends
\* delete = "mtu".
C9_DeleteIsMtuOnly ==
    ClearsMtu => last.requests[1].body.Delete = Ptr(S("mtu"))

\* C9, amended: the update that clears the mtu of the scenario's zone sends
\* delete = "mtu,nodes,dns,reversedns,dnszone"; the delete field of every
\* update names each base attribute that is unset in the plan, whether or
\* not it was set in the prior state, and no base attribute set in the plan.
C9_DeleteAllUnsetInPlan ==
    /\ ClearsMtu =>
           last.requests[1].body.Delete =
               Ptr(<<"mtu", Comma, "nodes", Comma, "dns", Comma, "reversedns",
                     Comma, "dnszone">>)
    /\ (/\ last.op = "Update"
        /\ Len(last.requests) >= 1 /\ last.requests[1].method = "PUT")
       => \A e \in BaseModelWire :
              (S(e[1]) \in SeqToSet(DeleteNames(last.requests[1].body.Delete)))
              <=> ~Known(last.plan[e[2]])

C9_Witness ==
    /\ ClearsMtu
    /\ last.requests[1].body.Delete =
           Ptr(<<"mtu", Comma, "nodes", Comma, "dns", Comma, "reversedns",
                 Comma, "dnszone">>)
    /\ last.requests[1].body.Bridge = Ptr(S("vmbr0"))

\* C10: a plan whose name differs from the prior state's, or in which a
\* variant block is populated that is not in the prior state or the reverse,
\* is marked as requiring replacement; so every Update is invoked with a plan
\* of the prior state's name and populated variant blocks.
C10_ReplaceOnNameOrBlockChange ==
    /\ last.op = "Plan" =>
           ((\/ Deref(last.prior).Name # last.plan.Name
             \/ Populated(Deref(last.prior)) # Populated(last.plan))
            => last.requiresReplace)
    /\ last.op = "Update" =>
           /\ Deref(last.prior).Name = last.plan.Name
           /\ Populated(Deref(last.prior)) = Populated(last.plan)

C10_Witness ==
    /\ last.op = "Plan"
    /\ Deref(last.prior).Name = last.plan.Name
    /\ Populated(Deref(last.prior)) = {"vlan"}
    /\ Populated(last.plan) = {"simple"}
    /\ last.requiresReplace

(***************************************************************************)
(* Properties of the schema and of the handlers' error paths (Spec).       *)
(***************************************************************************)
\* the mutating request of the last invocation was issued
Mutating == {"POST", "PUT", "DELETE"}
MutatingIssued ==
    \E i \in 1..Len(last.requests) : last.requests[i].method \in Mutating
\* the model the last invocation handed to read
ModelRead == IF last.op = "Read" THEN Deref(last.prior) ELSE last.plan
FetchedType == Deref(last.get.data).Type
UnknownTypeFetched ==
    /\ last.op \in CRU /\ GetIssued
    /\ last.get.err = Nil /\ last.get.data # Nil
    /\ FetchedType # Nil
    /\ \A t \in ZoneTypes : FetchedType # Ptr(S(t))

\* C11: the attribute names of the schema's evpn block are those of the evpn
\* model, and every Create or Update invoked with a plan that holds an evpn
\* block decodes the plan and issues its POST or PUT.
C11_EvpnPlanReachesRequest ==
    (last.op \in {"Create", "Update"} /\ last.plan.EVPN # Nil) =>
        /\ EvpnSchemaAttrs = EvpnModelAttrs
        /\ MutatingIssued
        /\ \A i \in 1..Len(last.diags) :
               last.diags[i].summary # "Value Conversion Error"

\* C12: a Create or Update writes the state only if its POST or PUT and the
\* Get after it both succeeded, and the state written is the model that
\* importFromSdnZoneBody derives from the fetched record alone.
C12_StateIsFetchedRecord ==
    (last.op \in {"Create", "Update"} /\ last.wrote) =>
        /\ last.reqErr = Nil
        /\ Len(last.requests) = 2
        /\ last.requests[1].method \in {"POST", "PUT"}
        /\ last.requests[2].method = "GET"
        /\ last.get.err = Nil /\ last.get.data # Nil
        /\ FetchedType # Nil
        /\ tfstate =
               Ptr(importFromSdnZoneBody(ZeroModel, Deref(last.get.data)).model)

\* C13: a Create or Update whose POST or PUT fails, with whatever message,
\* reports an error, issues no other request and writes no state; and no
\* Create, Update or Delete issues more than one mutating request.
C13_FailedWriteAborts ==
    /\ (/\ last.op \in {"Create", "Update"}
        /\ MutatingIssued
        /\ last.reqErr # Nil)
       => /\ HasError(last.diags)
          /\ Len(last.requests) = 1
          /\ ~last.wrote
          /\ tfstate = last.prior
    /\ last.op \in {"Create", "Update", "Delete"} =>
           Cardinality({i \in 1..Len(last.requests) :
                           last.requests[i].method \in Mutating}) <= 1

C13_Witness ==
    /\ last.op = "Update"
    /\ last.reqErr # Nil /\ Contains(Deref(last.reqErr), DoesNotExist)
    /\ Len(last.requests) = 1 /\ last.requests[1].method = "PUT"
    /\ HasError(last.diags)
    /\ tfstate = last.prior

\* C14: when the Get of a Create, Read or Update returns a record whose type
\* is none of the five, importFromSdnZoneBody reports an error and populates
\* no variant block that the model did not hold, and the handler reports the
\* error and writes no state.
C14_UnknownTypeIsError ==
    UnknownTypeFetched =>
        LET r == importFromSdnZoneBody(ModelRead, Deref(last.get.data))
        IN  /\ HasError(r.diags)
            /\ Populated(r.model) = Populated(ModelRead)
            /\ Populated(importFromSdnZoneBody(ZeroModel,
                                               Deref(last.get.data)).model) = {}
            /\ HasError(last.diags)
            /\ ~last.panicked
            /\ ~last.wrote
            /\ tfstate = last.prior

C14_Witness ==
    /\ UnknownTypeFetched
    /\ last.op = "Read"
    /\ FetchedType = Ptr(S("faucet"))
    /\ HasError(last.diags)
    /\ tfstate = last.prior

\* C15: no conversion aborts: every Create, Read and Update returns from its
\* conversions, whatever record the Get returns, a record without a type
\* included.
C15_ConversionNeverAborts ==
    last.op \in CRU => ~last.panicked

====
